---------------------------- MODULE Spec2Model ----------------------------
(***************************************************************************)
(* A model of src/cantooApi.js (the current CantooAPI class, lines         *)
(* 314-712): the URL builder, the iframe and window-listener lifecycle,    *)
(* the callback registry, the connection state and the three promise       *)
(* handshakes connect / loadDocument / destroy with their timers.          *)
(*                                                                         *)
(* One step of the model is one task of the host's event loop - a call     *)
(* made by the embedding page, a window `message` event, or a timer        *)
(* firing - together with the promise reactions (microtasks) it queues,    *)
(* which the event loop drains before the next task.  A promise status     *)
(* read between two steps is therefore what the caller observes.           *)
(***************************************************************************)
EXTENDS Integers, Sequences, FiniteSets, TLC

(***************************************************************************)
(* JavaScript values, tagged so that values of different types compare.    *)
(***************************************************************************)
Undefined == <<"undefined", "">>
True      == <<"boolean", "true">>
False     == <<"boolean", "false">>
Str(s)    == <<"string", s>>
Fn(name)  == <<"function", name>>

\* ToBoolean of the language: undefined, false and "" are falsy.
Truthy(v) ==
  CASE v[1] = "undefined" -> FALSE
    [] v[1] = "boolean"   -> v[2] = "true"
    [] v[1] = "string"    -> v[2] # ""
    [] OTHER              -> TRUE

\* String(v), as a template literal `${v}` applies it.
JsString(v) ==
  CASE v[1] = "undefined" -> "undefined"
    [] v[1] = "function"  -> "function " \o v[2] \o "() { [native code] }"
    [] OTHER              -> v[2]

\* !!readOnly
ToBool(v) == IF Truthy(v) THEN True ELSE False

(***************************************************************************)
(* The URL builder.                                                        *)
(***************************************************************************)
hosts ==
  [develop |-> "https://develop.cantoo.fr",
   preprod |-> "https://preprod.cantoo.fr",
   prod    |-> "https://cantoo.fr"]

\* Property names every object literal inherits from Object.prototype.
ObjectPrototypeKeys ==
  {"constructor", "toString", "valueOf", "hasOwnProperty", "isPrototypeOf",
   "propertyIsEnumerable", "toLocaleString", "__proto__"}

\* hosts[env]: a property read, own properties first, then the prototype.
HostsLookup(env) ==
  IF JsString(env) \in DOMAIN hosts THEN Str(hosts[JsString(env)])
  ELSE IF JsString(env) \in ObjectPrototypeKeys THEN Fn(JsString(env))
  ELSE Undefined

InvalidEnvironment(env) ==
  JsString(env) \o " is not a valid environment value. Try 'develop', 'preprod' or 'prod'."

\* The mapper with the falsy test dropped: every non-true value is printed.
QueryEntryMutantNoOmit(key, value) ==
  IF value = True THEN Str(key) ELSE Str(key \o "=" \o JsString(value))

\* .map(([key, value]) => value === true ? key : value ? `${key}=${value}` : undefined)
QueryEntry(key, value) ==
  IF value = True THEN Str(key)
  ELSE IF Truthy(value) THEN Str(key \o "=" \o JsString(value))
  ELSE Undefined

RECURSIVE MapEntries(_)
MapEntries(entries) ==
  IF entries = <<>> THEN <<>>
  ELSE <<QueryEntry(entries[1][1], entries[1][2])>> \o MapEntries(Tail(entries))

\* .filter(entry => !!entry)
FilterTruthy(seq) == SelectSeq(seq, Truthy)

\* .join(sep)
RECURSIVE Join(_, _)
Join(seq, sep) ==
  IF seq = <<>> THEN ""
  ELSE IF Len(seq) = 1 THEN JsString(seq[1])
  ELSE JsString(seq[1]) \o sep \o Join(Tail(seq), sep)

\* Object.entries(props).map(...).filter(...)
QueryEntries(entries) == FilterTruthy(MapEntries(entries))

\* buildUrl({ env, ...props }): `entries` is Object.entries(props), in the
\* insertion order of the object the caller built.
buildUrl(env, entries) ==
  LET host == HostsLookup(env) IN
  IF ~Truthy(host)
  THEN [threw |-> TRUE, value |-> InvalidEnvironment(env), query |-> <<>>]
  ELSE [threw |-> FALSE,
        value |-> JsString(host) \o "/api/embed?" \o Join(QueryEntries(entries), "&"),
        query |-> QueryEntries(entries)]

\* The object literal of _buildUrl with the keys in the order of the README's
\* query string (idEnt, uai, userId, fileId, readOnly).
PropsMutantOrder(a) ==
  << <<"idEnt", a.idEnt>>, <<"uai", a.uai>>, <<"userId", a.userId>>,
     <<"fileId", a.fileId>>, <<"readOnly", a.readOnly>>,
     <<"title", a.title>>, <<"template", a.template>> >>

\* The object literal of _buildUrl after `env` is destructured away: its
\* entries in insertion order.
PropsOf(a) ==
  << <<"idEnt", a.idEnt>>, <<"readOnly", a.readOnly>>, <<"uai", a.uai>>,
     <<"userId", a.userId>>, <<"fileId", a.fileId>>, <<"title", a.title>>,
     <<"template", a.template>> >>

\* this._buildUrl()
BuildUrlOf(a) == buildUrl(a.env, PropsOf(a))

(***************************************************************************)
(* Bounds of the model.                                                    *)
(***************************************************************************)
MaxLoads       == 1   \* loadDocument calls made by the page
MaxDestroys    == 1   \* destroy calls made by the page
MaxRegs        == 1   \* registrations the page holds at once, over all kinds

\* Timer delays in milliseconds.
ConnectDelay == 300000
LoadDelay    == 60000
DestroyDelay == 10000

ConnectTimeout == "The iframe took more than 5 minute to open. Timeout."
LoadTimeout    == "Loading the document took more than 60s. Timeout."
DestroyTimeout == "The iframe didn't respond within 10s. Destroying anyway"
NoIframe       == "iframe doesn't exist"
\* DOMException of Node.removeChild when the node is not a child.
NotFoundError  == "NotFoundError"

Kinds == {"ready", "completed", "destroyed", "logout"}
\* `type` of an inbound message: the four kinds, the outbound `close`
\* echoed back, and a message without data.type.
MsgTypes == Kinds \cup {"close", "undefined"}
FileIds == {Str("10"), Str("99")}

\* Handler functions: connect's `callback`, loadDocument's `callback` of
\* call j, destroy's `onDestroy` of call j, and the page's own handlers.
ConnectCb     == <<"connect", 0>>
LoadCb(j)     == <<"load", j>>
OnDestroy(j)  == <<"destroy", j>>
UserHandlers  == {<<"user", "h">>}

Range(seq) == {seq[i] : i \in 1..Len(seq)}

Pending     == [st |-> "pending", err |-> ""]
Resolved    == [st |-> "resolved", err |-> ""]
Rejected(e) == [st |-> "rejected", err |-> e]

VARIABLES
  api,        \* the fields env, idEnt, uai, userId, readOnly, fileId, title, template
  state,      \* this.state; "none" while no object exists
  callbacks,  \* this.callbacks
  src,        \* this.iframe.src
  query,      \* the entries joined into the query string of src
  attached,   \* the iframe is a child of domElement (contentWindow is non-null)
  listening,  \* postMessageListener is registered on window
  connectP,   \* the promise connect returned
  loads,      \* the promises of the loadDocument calls, in call order
  destroys,   \* the promises of the destroy calls, in call order
  timers,     \* pending setTimeout callbacks, in the order they were set
  posted,     \* number of { type: 'close' } messages posted to the iframe
  teardowns,  \* number of completed runs of _doDestroy
  acked,      \* a `destroyed` message has been dispatched by the listener
  fired,      \* the handler invocations of the latest step, in order
  op,         \* the task of the latest step, in the behaviours that log it
  other       \* a second CantooAPI instance on the same window, if there is one

vars == <<api, state, callbacks, src, query, attached, listening, connectP,
          loads, destroys, timers, posted, teardowns, acked, fired, op,
          other>>

EmptyCallbacks == [k \in Kinds |-> <<>>]

\* The task a step runs: a call of the page (name, event kind, handler), a
\* window message (its type) or a timer (the handler it belongs to).
NoHandler == <<"none", 0>>
Op(name, kind, h) ==
  [name |-> name, kind |-> kind, h |-> h, n |-> 0, fileId |-> Undefined]
\* A message event with its type, its source and the fileId of its data.
MessageOp(type, source, fileId) ==
  [Op("message", type, source) EXCEPT !.fileId = fileId]
\* The value of op in the behaviours that keep no log of their tasks.
NoLog == Op("nolog", "", NoHandler)

\* The fields of an instance that has not been constructed.
Blank(props) ==
  [api |-> props, state |-> "none", callbacks |-> EmptyCallbacks, src |-> "",
   query |-> <<>>, attached |-> FALSE, listening |-> FALSE,
   connectP |-> [st |-> "none", err |-> ""], loads |-> <<>>, destroys |-> <<>>,
   timers |-> <<>>, posted |-> 0, teardowns |-> 0, acked |-> FALSE,
   fired |-> <<>>, op |-> NoLog, thrown |-> ""]

\* The program state a step starts from; `thrown` is the exception in flight.
Cur ==
  [api |-> api, state |-> state, callbacks |-> callbacks, src |-> src,
   query |-> query, attached |-> attached, listening |-> listening,
   connectP |-> connectP, loads |-> loads, destroys |-> destroys,
   timers |-> timers, posted |-> posted, teardowns |-> teardowns,
   acked |-> acked, fired |-> <<>>, op |-> op, other |-> other,
   thrown |-> ""]

\* The step ends in program state S.
Commit(S) ==
  \E s \in {S} :
  /\ api' = s.api /\ state' = s.state /\ callbacks' = s.callbacks
  /\ src' = s.src /\ query' = s.query /\ attached' = s.attached
  /\ listening' = s.listening /\ connectP' = s.connectP /\ loads' = s.loads
  /\ destroys' = s.destroys /\ timers' = s.timers /\ posted' = s.posted
  /\ teardowns' = s.teardowns /\ acked' = s.acked /\ fired' = s.fired
  /\ op' = s.op /\ other' = s.other

\* S, reached by running task o.
Did(S, o) == IF S.op = NoLog THEN S ELSE [S EXCEPT !.op = o]

\* F applied to the value of S: S is evaluated once, as a statement is
\* executed once before the next one reads what it wrote.
Then(S, F(_)) == CHOOSE r \in {F(s) : s \in {S}} : TRUE

(***************************************************************************)
(* The callback registry and the promises.                                 *)
(***************************************************************************)
addEventListener(S, eventName, listener) ==
  [S EXCEPT !.callbacks[eventName] = Append(@, listener)]

\* A removal that drops only the first occurrence of the listener.
RECURSIVE DropFirst(_, _)
DropFirst(seq, x) ==
  IF seq = <<>> THEN <<>>
  ELSE IF Head(seq) = x THEN Tail(seq)
  ELSE <<Head(seq)>> \o DropFirst(Tail(seq), x)

RemoveEventListenerMutantFirst(S, eventName, listener) ==
  [S EXCEPT !.callbacks[eventName] = DropFirst(@, listener)]

removeEventListener(S, eventName, listener) ==
  [S EXCEPT !.callbacks[eventName] = SelectSeq(@, LAMBDA c : c # listener)]

\* resolve / reject of a promise: no effect once it is settled.
Settle(p, outcome) == IF p.st = "pending" THEN outcome ELSE p

\* One invocation of handler h with the event data.
Call(h, S, data) ==
  Then([S EXCEPT !.fired = Append(@, [h |-> h, state |-> S.state,
                                      attached |-> S.attached,
                                      listening |-> S.listening,
                                      cleared |-> S.callbacks = EmptyCallbacks])],
  LAMBDA s0 :
     CASE h[1] = "connect" ->
            [removeEventListener(s0, "ready", h)
               EXCEPT !.api.fileId = data.fileId,
                      !.connectP = Settle(@, Resolved)]
       [] h[1] = "load" ->
            [removeEventListener(s0, "ready", h)
               EXCEPT !.loads[h[2]] =
                 IF @.st = "pending" THEN [@ EXCEPT !.st = "resolved"] ELSE @]
       [] h[1] = "destroy" ->
            removeEventListener(
              [s0 EXCEPT !.destroys[h[2]] =
                 IF @.st = "pending" THEN [@ EXCEPT !.st = "resolved"] ELSE @],
              "destroyed", h)
       [] OTHER -> s0)

\* A forEach over an array the handlers splice: after a handler that removed
\* itself the next element has moved into its place and is passed over.
RECURSIVE ForEachMutantLive(_, _, _)
ForEachMutantLive(hs, S, data) ==
  IF hs = <<>> THEN S
  ELSE Then(Call(hs[1], S, data), LAMBDA s :
         ForEachMutantLive(IF hs[1][1] \in {"connect", "load", "destroy"} /\ Len(hs) > 1
                           THEN Tail(Tail(hs)) ELSE Tail(hs),
                           s, data))

\* array.forEach over the array as it was when the iteration started: the
\* handlers replace this.callbacks[kind] by a filtered copy, never mutate it.
RECURSIVE ForEach(_, _, _)
ForEach(hs, S, data) ==
  IF hs = <<>> THEN S
  ELSE Then(Call(hs[1], S, data), LAMBDA s : ForEach(Tail(hs), s, data))

NoData == [fileId |-> Undefined]

(***************************************************************************)
(* _doDestroy, destroy, the constructor and the message listener.          *)
(***************************************************************************)
\* A teardown that tolerates an iframe already detached.
DoDestroyMutantTolerant(S) ==
  Then([S EXCEPT !.listening = FALSE, !.attached = FALSE, !.state = "destroyed"],
       LAMBDA s1 :
         Then(ForEach(s1.callbacks["destroyed"], s1, NoData),
              LAMBDA s2 : [s2 EXCEPT !.callbacks = EmptyCallbacks,
                                     !.teardowns = @ + 1]))

\* A teardown that forgets to reset the registry.
DoDestroyMutantKeepRegistry(S) ==
  Then([S EXCEPT !.listening = FALSE], LAMBDA s1 :
    IF ~s1.attached THEN [s1 EXCEPT !.thrown = NotFoundError]
    ELSE Then([s1 EXCEPT !.attached = FALSE, !.state = "destroyed"], LAMBDA s2 :
           Then(ForEach(s2.callbacks["destroyed"], s2, NoData), LAMBDA s3 :
             [s3 EXCEPT !.teardowns = @ + 1])))

\* A teardown that does not notify the `destroyed` subscribers.
DoDestroyMutantSilent(S) ==
  Then([S EXCEPT !.listening = FALSE], LAMBDA s1 :
    IF ~s1.attached THEN [s1 EXCEPT !.thrown = NotFoundError]
    ELSE [s1 EXCEPT !.attached = FALSE, !.state = "destroyed",
                    !.callbacks = EmptyCallbacks, !.teardowns = @ + 1])

\* A teardown that leaves the window listener registered.
DoDestroyMutantKeepListener(S) ==
  IF ~S.attached THEN [S EXCEPT !.thrown = NotFoundError]
  ELSE Then([S EXCEPT !.attached = FALSE, !.state = "destroyed"], LAMBDA s2 :
         Then(ForEach(s2.callbacks["destroyed"], s2, NoData), LAMBDA s3 :
           [s3 EXCEPT !.callbacks = EmptyCallbacks, !.teardowns = @ + 1]))

\* A teardown that notifies the `destroyed` subscribers first.
DoDestroyMutantNotifyFirst(S) ==
  IF ~S.attached THEN [S EXCEPT !.listening = FALSE, !.thrown = NotFoundError]
  ELSE Then(ForEach(S.callbacks["destroyed"], S, NoData), LAMBDA s1 :
         [s1 EXCEPT !.listening = FALSE, !.attached = FALSE,
                    !.state = "destroyed", !.callbacks = EmptyCallbacks,
                    !.teardowns = @ + 1])

doDestroy(S) ==
  Then([S EXCEPT !.listening = FALSE], LAMBDA s1 :
    IF ~s1.attached THEN [s1 EXCEPT !.thrown = NotFoundError]
    ELSE Then([s1 EXCEPT !.attached = FALSE, !.state = "destroyed"], LAMBDA s2 :
           Then(ForEach(s2.callbacks["destroyed"], s2, NoData), LAMBDA s3 :
             [s3 EXCEPT !.callbacks = EmptyCallbacks, !.teardowns = @ + 1])))

\* destroy(), called by `by`: the promise executor, and for a rejection
\* raised inside it the catch reaction that runs _doDestroy.
destroy(S, by) ==
  LET j == Len(S.destroys) + 1 IN
  IF ~S.attached
  THEN Then(doDestroy(S), LAMBDA s1 :
         [s1 EXCEPT !.thrown = "",
                    !.destroys = Append(@,
                       [st |-> "rejected",
                        err |-> IF s1.thrown # "" THEN s1.thrown ELSE NoIframe,
                        live |-> FALSE, by |-> by])])
  ELSE [addEventListener(S, "destroyed", OnDestroy(j))
          EXCEPT !.posted = @ + 1,
                 !.timers = Append(@, OnDestroy(j)),
                 !.destroys = Append(@, [st |-> "pending", err |-> "",
                                         live |-> TRUE, by |-> by])]

\* new CantooAPI(props): S.api already holds the props.
Constructor(S) ==
  LET u == BuildUrlOf(S.api) IN
  IF u.threw THEN [S EXCEPT !.thrown = u.value]
  ELSE [S EXCEPT !.state = "launching", !.callbacks = EmptyCallbacks,
                 !.src = u.value, !.query = u.query,
                 !.attached = TRUE, !.listening = TRUE]

\* A listener that treats `destroyed` like `ready` and `completed`.
PostMessageListenerMutantNoTeardown(S, type, data) ==
  IF type \in {"ready", "completed", "destroyed"}
  THEN Then([S EXCEPT !.state = type], LAMBDA s1 :
         ForEach(s1.callbacks[type], [s1 EXCEPT !.acked = (type = "destroyed")], data))
  ELSE S

\* A listener that dispatches `logout` like `ready` and `completed`.
PostMessageListenerMutantLogout(S, type, data) ==
  IF type \in {"ready", "completed", "destroyed", "logout"}
  THEN Then([S EXCEPT !.state = type], LAMBDA s1 :
         IF type = "destroyed" THEN doDestroy([s1 EXCEPT !.acked = TRUE])
         ELSE ForEach(s1.callbacks[type], s1, data))
  ELSE S

\* A listener without the test of the type.
PostMessageListenerMutantAnyType(S, type, data) ==
  Then([S EXCEPT !.state = type], LAMBDA s1 :
    IF type = "destroyed" THEN doDestroy([s1 EXCEPT !.acked = TRUE])
    ELSE IF type \in Kinds THEN ForEach(s1.callbacks[type], s1, data)
    ELSE s1)

\* this.postMessageListener(event), event.data = { type, fileId, ... }
postMessageListener(S, type, data) ==
  IF type \in {"ready", "completed", "destroyed"}
  THEN Then([S EXCEPT !.state = type], LAMBDA s1 :
         IF type = "destroyed" THEN doDestroy([s1 EXCEPT !.acked = TRUE])
         ELSE ForEach(s1.callbacks[type], s1, data))
  ELSE S

(***************************************************************************)
(* connect and loadDocument.                                               *)
(***************************************************************************)
\* CantooAPI.connect(props) up to the point where it returns its promise.
connect(S) ==
  Then(Constructor(S), LAMBDA s1 :
    IF s1.thrown # ""
    THEN [s1 EXCEPT !.connectP = Rejected(s1.thrown), !.thrown = ""]
    ELSE [addEventListener(s1, "ready", ConnectCb)
            EXCEPT !.timers = Append(@, ConnectCb), !.connectP = Pending])

\* A loadDocument that puts the state back to `launching`.
LoadDocumentMutantResetsState(S, fileId, readOnly) ==
  LET j  == Len(S.loads) + 1
      a  == [S.api EXCEPT !.fileId = fileId, !.title = Undefined,
                          !.readOnly = ToBool(readOnly), !.template = Undefined]
      u  == BuildUrlOf(a)
      s1 == [S EXCEPT !.api = a, !.src = u.value, !.query = u.query,
                      !.state = "launching"]
  IN [addEventListener(s1, "ready", LoadCb(j))
        EXCEPT !.timers = Append(@, LoadCb(j)),
               !.loads = Append(@, [st |-> "pending", err |-> "",
                                    fileId |-> fileId, state |-> S.state])]

\* loadDocument(fileId, readOnly) up to the point where it returns.
loadDocument(S, fileId, readOnly) ==
  LET j  == Len(S.loads) + 1
      a  == [S.api EXCEPT !.fileId = fileId, !.title = Undefined,
                          !.readOnly = ToBool(readOnly), !.template = Undefined]
      u  == BuildUrlOf(a)
      s1 == [S EXCEPT !.api = a, !.src = u.value, !.query = u.query]
  IN [addEventListener(s1, "ready", LoadCb(j))
        EXCEPT !.timers = Append(@, LoadCb(j)),
               !.loads = Append(@, [st |-> "pending", err |-> "",
                                    fileId |-> fileId, state |-> S.state])]

(***************************************************************************)
(* The setTimeout callbacks, each with the catch reaction its reject       *)
(* queues.                                                                 *)
(***************************************************************************)
\* connect's timer: reject, then `.catch(err => { api.destroy(); throw err })`.
ConnectTimer(S) ==
  IF S.connectP.st # "pending" THEN S
  ELSE [destroy(S, "connect") EXCEPT !.connectP = Rejected(ConnectTimeout)]

\* A timer of loadDocument that only removes the subscriber.
LoadTimerMutantNoReject(S, j) == removeEventListener(S, "ready", LoadCb(j))

\* loadDocument's timer of call j.
LoadTimer(S, j) ==
  IF S.loads[j].st # "pending" THEN removeEventListener(S, "ready", LoadCb(j))
  ELSE LET s1 == [S EXCEPT !.loads[j].st = "rejected", !.loads[j].err = LoadTimeout]
           s2 == removeEventListener(s1, "ready", LoadCb(j))
       IN destroy(s2, "load")

\* destroy's timer of call j: reject, then
\* `.catch(err => { this._doDestroy(); throw err })`.
DestroyTimer(S, j) ==
  IF S.destroys[j].st # "pending" THEN S
  ELSE Then(doDestroy([S EXCEPT !.destroys[j].st = "rejected",
                                !.destroys[j].err = DestroyTimeout]),
            LAMBDA s2 :
              IF s2.thrown # ""
              THEN [s2 EXCEPT !.destroys[j].err = s2.thrown, !.thrown = ""]
              ELSE s2)

Delay(t) ==
  CASE t[1] = "connect" -> ConnectDelay
    [] t[1] = "load"    -> LoadDelay
    [] t[1] = "destroy" -> DestroyDelay

\* Timer i may fire next: no timer set before it with a delay at most its
\* own is still pending.
CanFire(i) == \A k \in 1..(i - 1) : Delay(timers[k]) > Delay(timers[i])

RemoveAt(seq, i) == SubSeq(seq, 1, i - 1) \o SubSeq(seq, i + 1, Len(seq))

RunTimer(S, t) ==
  CASE t[1] = "connect" -> ConnectTimer(S)
    [] t[1] = "load"    -> LoadTimer(S, t[2])
    [] t[1] = "destroy" -> DestroyTimer(S, t[2])

(***************************************************************************)
(* The state machine.                                                      *)
(***************************************************************************)
\* The props of the README's example, and the same with an unknown env.
Configs ==
  [env : {Str("develop"), Str("staging")}, idEnt : {Str("1")}, uai : {Str("2")},
   userId : {Str("10")}, readOnly : {True}, fileId : {Str("10")},
   title : {Undefined}, template : {Undefined}]

InitOf(cfgs, log) ==
  /\ api \in cfgs
  /\ state = "none"
  /\ callbacks = EmptyCallbacks
  /\ src = ""
  /\ query = <<>>
  /\ attached = FALSE
  /\ listening = FALSE
  /\ connectP = [st |-> "none", err |-> ""]
  /\ loads = <<>>
  /\ destroys = <<>>
  /\ timers = <<>>
  /\ posted = 0
  /\ teardowns = 0
  /\ acked = FALSE
  /\ fired = <<>>
  /\ op = log
  /\ other = Blank(api)

InitWith(cfgs) == InitOf(cfgs, NoLog)

Init == InitWith(Configs)

\* The page calls CantooAPI.connect(props).
Connect ==
  /\ connectP.st = "none"
  /\ Commit(Did(connect(Cur), Op("connect", "", NoHandler)))

\* The window receives a message event.
Message ==
  /\ state # "none"
  /\ \E type \in MsgTypes :
       \E f \in (IF type = "ready" THEN FileIds ELSE {Undefined}) :
         Commit(Did(IF listening
                    THEN [postMessageListener(Cur, type, [fileId |-> f])
                            EXCEPT !.thrown = ""]
                    ELSE Cur,
                    MessageOp(type, NoHandler, f)))

\* A timer fires.
TimerFires ==
  \E i \in 1..Len(timers) :
    /\ CanFire(i)
    /\ Commit(Did(RunTimer([Cur EXCEPT !.timers = RemoveAt(@, i)], timers[i]),
                   Op("timer", timers[i][1], timers[i])))

\* The page holds the connection object once connect has resolved.
HasApi == connectP.st = "resolved"

UserLoadDocument ==
  /\ HasApi
  /\ Len(loads) < MaxLoads
  /\ Commit(Did(loadDocument(Cur, Str("99"), True),
                 Op("loadDocument", "", NoHandler)))

UserDestroys == {j \in 1..Len(destroys) : destroys[j].by = "user"}

UserDestroy ==
  /\ HasApi
  /\ Cardinality(UserDestroys) < MaxDestroys
  /\ Commit(Did(destroy(Cur, "user"), Op("destroy", "", NoHandler)))

Regs == Len(SelectSeq(callbacks["ready"], LAMBDA c : c \in UserHandlers))
        + Len(SelectSeq(callbacks["completed"], LAMBDA c : c \in UserHandlers))
        + Len(SelectSeq(callbacks["destroyed"], LAMBDA c : c \in UserHandlers))
        + Len(SelectSeq(callbacks["logout"], LAMBDA c : c \in UserHandlers))

UserAddEventListener ==
  /\ HasApi
  /\ Regs < MaxRegs
  /\ \E kind \in Kinds, h \in UserHandlers :
       Commit(Did(addEventListener(Cur, kind, h),
                  Op("addEventListener", kind, h)))

UserRemoveEventListener ==
  /\ HasApi
  /\ \E kind \in Kinds, h \in UserHandlers :
       Commit(Did(removeEventListener(Cur, kind, h),
                  Op("removeEventListener", kind, h)))

Next ==
  \/ Connect
  \/ Message
  \/ TimerFires
  \/ UserLoadDocument
  \/ UserDestroy
  \/ UserAddEventListener
  \/ UserRemoveEventListener

Spec == Init /\ [][Next]_vars

\* The page registers a `destroyed` subscriber, once.
UserSubscribeDestroyed ==
  /\ HasApi
  /\ \E h \in UserHandlers :
       /\ h \notin Range(callbacks["destroyed"])
       /\ Commit(Did(addEventListener(Cur, "destroyed", h),
                      Op("addEventListener", "destroyed", h)))

\* The handshakes without the page's other registry calls, and every timer
\* that was set fires.
FairNext ==
  \/ Connect
  \/ Message
  \/ TimerFires
  \/ UserLoadDocument
  \/ UserDestroy
  \/ UserSubscribeDestroyed

FairSpec == Init /\ [][FairNext]_vars /\ WF_vars(TimerFires)

(***************************************************************************)
(* The message bus: the same program with the task of every step logged in *)
(* op, where the page subscribes its handler to a kind once and never      *)
(* unsubscribes.                                                           *)
(***************************************************************************)
BusInit == InitOf(Configs, Op("none", "", NoHandler))

UserSubscribe ==
  /\ HasApi
  /\ Regs < MaxRegs
  /\ \E kind \in Kinds, h \in UserHandlers :
       /\ h \notin Range(callbacks[kind])
       /\ Commit(Did(addEventListener(Cur, kind, h),
                      Op("addEventListener", kind, h)))

BusNext ==
  \/ Connect
  \/ Message
  \/ TimerFires
  \/ UserLoadDocument
  \/ UserDestroy
  \/ UserSubscribe

BusSpec == BusInit /\ [][BusNext]_vars

(***************************************************************************)
(* The URL builder on its own: connect and loadDocument over a wide set of *)
(* props, with the one `ready` message that hands the page the connection. *)
(***************************************************************************)
UrlConfigs ==
  [env : {Str("develop"), Str("preprod"), Str("prod"), Str("staging"),
          Str("toString"), Undefined},
   idEnt : {Str("1"), Str("")}, uai : {Str("2")}, userId : {Str("10"), Str("")},
   readOnly : {True, False, Undefined},
   fileId : {Str("10"), Str(""), Undefined},
   title : {Str("T"), Str(""), Undefined},
   template : {Str("cabri"), Undefined}]

UrlInit == InitWith(UrlConfigs)

UrlReady ==
  /\ listening
  /\ connectP.st = "pending"
  /\ Commit(Did(postMessageListener(Cur, "ready", [fileId |-> Str("10")]),
                 MessageOp("ready", NoHandler, Str("10"))))

UrlNext == Connect \/ UrlReady \/ UserLoadDocument

UrlSpec == UrlInit /\ [][UrlNext]_vars

(***************************************************************************)
(* The registry: the page registers and removes two handlers of its own,   *)
(* any number of times each, next to the handlers loadDocument and destroy *)
(* register.  The log keeps how often the handler was registered under the *)
(* kind when the call was made.                                            *)
(***************************************************************************)
MaxListed == 3   \* registrations of the page's handlers, over all kinds

RegHandlers == {<<"user", "h">>, <<"user", "g">>}

Occurrences(seq, x) == Cardinality({i \in 1..Len(seq) : seq[i] = x})

Listed == Cardinality({p \in Kinds \X (1..(MaxListed + 3)) :
                        /\ p[2] <= Len(callbacks[p[1]])
                        /\ callbacks[p[1]][p[2]] \in RegHandlers})

RegOp(name, kind, h) ==
  [Op(name, kind, h) EXCEPT !.n = Occurrences(callbacks[kind], h)]

RegAdd ==
  /\ HasApi
  /\ Listed < MaxListed
  /\ \E kind \in Kinds, h \in RegHandlers :
       Commit(Did(addEventListener(Cur, kind, h),
                  RegOp("addEventListener", kind, h)))

RegRemove ==
  /\ HasApi
  /\ \E kind \in Kinds, h \in RegHandlers :
       Commit(Did(removeEventListener(Cur, kind, h),
                  RegOp("removeEventListener", kind, h)))

RegNext ==
  \/ Connect
  \/ UrlReady
  \/ UserLoadDocument
  \/ UserDestroy
  \/ RegAdd
  \/ RegRemove

RegSpec == BusInit /\ [][RegNext]_vars

(***************************************************************************)
(* Two instances on one window.  `other` is a second CantooAPI, each        *)
(* instance with its own iframe.  A message posted by the embedded          *)
(* application of either iframe is a `message` event of the window, which   *)
(* calls every listener registered on it.  The steps shown are those before *)
(* any timer fires.                                                         *)
(***************************************************************************)
\* The source of a message event: the iframe of this instance or of the other.
OwnIframe   == <<"iframe", "own">>
OtherIframe == <<"iframe", "other">>

\* The page calls CantooAPI.connect a second time.
ConnectOther ==
  /\ state # "none"
  /\ other.state = "none"
  /\ Commit(Did([Cur EXCEPT !.other = connect(Blank(api))],
                 Op("connectOther", "", NoHandler)))

\* What the listener of instance S does with the event, if it is registered.
Deliver(S, type, data) ==
  IF S.listening THEN [postMessageListener(S, type, data) EXCEPT !.thrown = ""]
  ELSE S

\* The application embedded in the iframe `source` posts a message.
PairMessage ==
  \E source \in {OwnIframe, OtherIframe}, type \in MsgTypes :
    \E f \in (IF type = "ready" THEN FileIds ELSE {Undefined}) :
      /\ IF source = OwnIframe THEN attached ELSE other.attached
      /\ Commit(Did([Deliver(Cur, type, [fileId |-> f])
                       EXCEPT !.other = Deliver(other, type, [fileId |-> f])],
                     MessageOp(type, source, f)))

PairNext ==
  \/ Connect
  \/ ConnectOther
  \/ PairMessage
  \/ UserLoadDocument
  \/ UserDestroy
  \/ UserSubscribe

PairSpec == BusInit /\ [][PairNext]_vars

(***************************************************************************)
(* Properties.                                                             *)
(***************************************************************************)
\* Local teardown is complete.
TornDown ==
  /\ ~attached
  /\ ~listening
  /\ callbacks = EmptyCallbacks
  /\ state = "destroyed"

\* C1: once connect has rejected with the connect-timeout error, the iframe
\* is detached from domElement and the window message listener is removed.
C1_ConnectTimeoutTornDown ==
  (connectP = Rejected(ConnectTimeout)) => (~attached /\ ~listening)

\* C2: a loadDocument issued in state `ready` that has rejected with the
\* load-timeout error leaves state `destroyed`.
C2_LoadTimeoutDestroyed ==
  \A j \in 1..Len(loads) :
    (loads[j].state = "ready" /\ loads[j].st = "rejected")
      => (loads[j].err = LoadTimeout /\ state = "destroyed")

\* The destroy call that the timeout of connect / of loadDocument made, if it
\* found the iframe live.
LiveDestroyBy(by) ==
  \E j \in 1..Len(destroys) : destroys[j].by = by /\ destroys[j].live

ConnectTimedOutLive ==
  connectP = Rejected(ConnectTimeout) /\ LiveDestroyBy("connect")

LoadTimedOutLive ==
  /\ \E j \in 1..Len(loads) : loads[j].st = "rejected"
  /\ LiveDestroyBy("load")

\* Destroy call j times out in this step.
DestroyTimesOut(j) ==
  /\ destroys[j].st = "pending"
  /\ destroys'[j].st = "rejected"

\* C3: a timeout failure of connect or of loadDocument on a live connection
\* leads to a state where the iframe is detached, the listener removed, the
\* registry empty and state `destroyed`, whatever messages arrive meanwhile;
\* a timeout failure of destroy is such a state at once.
C3_TimeoutLeadsToTeardown ==
  /\ (ConnectTimedOutLive /\ attached) ~> TornDown
  /\ (LoadTimedOutLive /\ attached) ~> TornDown
  /\ [][\A j \in 1..Len(destroys) : DestroyTimesOut(j) => TornDown']_vars

\* A timeout failure on a live connection has happened and teardown is done.
C3_Witness ==
  /\ TornDown
  /\ ConnectTimedOutLive \/ LoadTimedOutLive
  /\ \E j \in 1..Len(destroys) : destroys[j] = [st |-> "rejected",
         err |-> DestroyTimeout, live |-> TRUE, by |-> destroys[j].by]

\* C4: for every destroy call made while the iframe is live, _doDestroy has
\* not completed while the call is pending, has completed exactly once when
\* its promise is settled, and never completes twice.
C4_TeardownExactlyOnce ==
  /\ teardowns <= 1
  /\ \A j \in 1..Len(destroys) :
       destroys[j].live =>
         IF destroys[j].st = "pending" THEN teardowns = 0 ELSE teardowns = 1

\* A live destroy call was answered by `destroyed` and its 10 s timer has
\* fired since; another destroy call was made after the teardown.
C4_Witness ==
  /\ teardowns = 1
  /\ \E j \in 1..Len(destroys) :
       /\ destroys[j].live
       /\ destroys[j].st = "resolved"
       /\ acked
       /\ OnDestroy(j) \notin Range(timers)
  /\ \E k \in 1..Len(destroys) : ~destroys[k].live

\* The promise of destroy call j settles in this step.
Settles(j) ==
  /\ destroys[j].st = "pending"
  /\ destroys'[j].st # "pending"

\* Handler h is invoked in this step.
Invoked(h) == \E i \in 1..Len(fired') : fired'[i].h = h

\* Where a destroy promise settles: state is `destroyed`, no kind has a
\* callback left, and the page's `destroyed` subscribers have been invoked.
AtSettle ==
  /\ state' = "destroyed"
  /\ callbacks' = EmptyCallbacks
  /\ \A h \in UserHandlers : h \in Range(callbacks["destroyed"]) => Invoked(h)

TimerOfFires(j) ==
  /\ OnDestroy(j) \in Range(timers)
  /\ OnDestroy(j) \notin Range(timers')

MaxCalls == MaxDestroys + MaxLoads + 1

\* A destroy call made on a live connection eventually settles.
LiveDestroySettles ==
  \A j \in 1..MaxCalls :
    (j <= Len(destroys) /\ destroys[j].live)
      ~> (j <= Len(destroys) /\ destroys[j].st # "pending")

C6_NoActiveConnection ==
  [][\A j \in 1..Len(destroys') :
       (j > Len(destroys) /\ ~destroys'[j].live) =>
         /\ destroys'[j].st = "rejected"
         /\ destroys'[j].err = NoIframe
         /\ posted' = posted
         /\ OnDestroy(j) \notin Range(timers')
         /\ state' = state
         /\ attached' = attached
         /\ listening' = listening
         /\ destroys'[j].by = "user" => callbacks' = callbacks
    ]_vars

\* C7: connect is pending while state is `launching`; a `ready` message
\* dispatched while it is pending resolves it, and where it resolves state
\* is `ready`, the iframe is mounted and connect's own `ready` subscriber is
\* no longer registered.
C7_ConnectResolvesOnReady ==
  [][/\ state' = "launching" => connectP'.st = "pending"
     /\ (connectP.st = "pending" /\ Invoked(ConnectCb)) => connectP'.st = "resolved"
     /\ (connectP.st = "pending" /\ connectP'.st = "resolved") =>
          /\ state' = "ready"
          /\ attached'
          /\ ConnectCb \notin Range(callbacks'["ready"])
    ]_vars

\* The props of the README's connect example.
ReadmeProps ==
  [env |-> Str("develop"), idEnt |-> Str("1"), uai |-> Str("2"),
   userId |-> Str("10"), fileId |-> Str("10"), readOnly |-> True,
   title |-> Undefined, template |-> Undefined]

\* The iframe src is the one the constructor built from the README's props.
BuiltFromReadmeProps ==
  /\ state # "none"
  /\ loads = <<>>
  /\ api = ReadmeProps

\* C8 as stated: for the README's props the iframe src has the query
\* entries in the order idEnt, uai, userId, fileId, readOnly.
C8_Original ==
  BuiltFromReadmeProps =>
    src = "https://develop.cantoo.fr/api/embed?idEnt=1&uai=2&userId=10&fileId=10&readOnly"

\* C8 amended: the entries come in the order idEnt, readOnly, uai, userId,
\* fileId.
C8_IframeSrc ==
  BuiltFromReadmeProps =>
    src = "https://develop.cantoo.fr/api/embed?idEnt=1&readOnly&uai=2&userId=10&fileId=10"

C8_Witness == BuiltFromReadmeProps /\ attached /\ connectP.st = "resolved"

ParamKeys == {"idEnt", "readOnly", "uai", "userId", "fileId", "title", "template"}
ValidEnvs == {"develop", "preprod", "prod"}

\* The entry a parameter is to appear as: the bare key for true, else key=value.
EntryFor(key, v) == IF v = True THEN Str(key) ELSE Str(key \o "=" \o v[2])

\* The query q has one entry for each parameter of a that Keep accepts, as
\* EntryFor gives it, and no other entry.
ExactlyTheEntries(a, q, Keep(_)) ==
  /\ \A key \in ParamKeys : Keep(a[key]) => EntryFor(key, a[key]) \in Range(q)
  /\ Len(q) = Cardinality({key \in ParamKeys : Keep(a[key])})

\* This step built the iframe src from the fields of a valid config.
BuildsUrl == src' # src /\ JsString(api'.env) \in ValidEnvs

UrlOf(a, q) == hosts[JsString(a.env)] \o "/api/embed?" \o Join(q, "&")

\* C9 as stated: every parameter that is defined and not false has its
\* entry - an empty string included - and no other parameter has one.
C9_Original ==
  [][BuildsUrl =>
       /\ ExactlyTheEntries(api', query', LAMBDA v : v # Undefined /\ v # False)
       /\ src' = UrlOf(api', query')
    ]_vars

\* C9 amended: the parameters that have an entry are the truthy ones; an
\* empty string is omitted like undefined and false.
C9_QueryEntries ==
  [][BuildsUrl =>
       /\ ExactlyTheEntries(api', query', Truthy)
       /\ src' = UrlOf(api', query')
    ]_vars

\* A src built from props with a true flag, an empty string, a false-like
\* title and plain strings.
C9_Witness ==
  /\ state # "none"
  /\ loads = <<>>
  /\ JsString(api.env) \in ValidEnvs
  /\ api.idEnt = Str("") /\ api.readOnly = True /\ api.title = Undefined
  /\ api.userId = Str("10") /\ api.template = Str("cabri")
  /\ query = <<Str("readOnly"), Str("uai=2"), Str("userId=10"),
               Str("fileId=10"), Str("template=cabri")>>

\* C10: connect with an env outside develop / preprod / prod has rejected
\* with the invalid-environment error and has appended no iframe, registered
\* no listener and created no timer or subscriber.
C10_InvalidEnvironment ==
  (connectP.st # "none" /\ JsString(api.env) \notin ValidEnvs) =>
    /\ connectP = Rejected(InvalidEnvironment(api.env))
    /\ ~attached
    /\ ~listening
    /\ timers = <<>>
    /\ callbacks = EmptyCallbacks
    /\ src = ""

\* seq without the occurrences of x, the rest in the order it had.
RECURSIVE Without(_, _)
Without(seq, x) ==
  IF seq = <<>> THEN <<>>
  ELSE IF Head(seq) = x THEN Without(Tail(seq), x)
  ELSE <<Head(seq)>> \o Without(Tail(seq), x)

\* C11: addEventListener(kind, h) appends h to the list of kind, and
\* removeEventListener(kind, h) leaves no occurrence of h under kind however
\* often it was registered, keeps the other handlers of kind in their order
\* and leaves the lists of the other kinds as they were.
C11_AddThenRemove ==
  [][/\ op'.name = "addEventListener" =>
          /\ callbacks'[op'.kind] = callbacks[op'.kind] \o <<op'.h>>
          /\ \A k \in Kinds \ {op'.kind} : callbacks'[k] = callbacks[k]
     /\ op'.name = "removeEventListener" =>
          /\ op'.n = Occurrences(callbacks[op'.kind], op'.h)
          /\ Occurrences(callbacks'[op'.kind], op'.h) = 0
          /\ callbacks'[op'.kind] = Without(callbacks[op'.kind], op'.h)
          /\ \A k \in Kinds \ {op'.kind} : callbacks'[k] = callbacks[k]
    ]_vars

\* A handler registered twice under `ready` has just been removed by one
\* call, from between a loadDocument subscriber and another handler.
C11_Witness ==
  /\ op.name = "removeEventListener"
  /\ op.kind = "ready"
  /\ op.n = 2
  /\ callbacks["ready"] = <<LoadCb(1), <<"user", "g">>>>

\* The listener dispatches a message of this type in this step.
Dispatches(type) == listening /\ op'.name = "message" /\ op'.kind = type

\* The handlers invoked in this step, in the order of their invocation.
FiredHandlers == [i \in 1..Len(fired') |-> fired'[i].h]

\* C12: when a `logout` message arrives on a live connection, every callback
\* registered under `logout` is invoked.
C12_LogoutDispatched ==
  [][Dispatches("logout") =>
       \A i \in 1..Len(callbacks["logout"]) : Invoked(callbacks["logout"][i])
    ]_vars

\* C13: a `logout` message leaves state, the iframe, the window listener and
\* the registry as they were, in whatever state it arrives.
C13_LogoutNoTransition ==
  [][(op'.name = "message" /\ op'.kind = "logout") =>
       /\ state' = state
       /\ attached' = attached
       /\ listening' = listening
       /\ callbacks' = callbacks
    ]_vars

\* A `logout` message has been dispatched in state `completed`, with a
\* subscriber of the page under `logout`.
C13_Witness ==
  /\ op.name = "message" /\ op.kind = "logout"
  /\ state = "completed"
  /\ listening /\ attached
  /\ callbacks["logout"] # <<>>

\* C14: a message whose type is no event kind, or that has no type, changes
\* no state, invokes no callback and settles no promise of connect,
\* loadDocument or destroy.
C14_UnknownTypeIgnored ==
  [][(op'.name = "message" /\ op'.kind \notin Kinds) =>
       /\ state' = state
       /\ fired' = <<>>
       /\ connectP' = connectP
       /\ loads' = loads
       /\ destroys' = destroys
       /\ callbacks' = callbacks
    ]_vars

\* A message without type has arrived while a loadDocument and a destroy
\* were pending.
C14_Witness ==
  /\ op.name = "message" /\ op.kind = "undefined"
  /\ listening
  /\ \E j \in 1..Len(loads) : loads[j].st = "pending"
  /\ \E j \in 1..Len(destroys) : destroys[j].st = "pending"

\* C15: on `ready` or `completed` the state is set to the type before any
\* callback runs, and the callbacks registered under the type when the
\* dispatch starts are each invoked once, in registration order, within the
\* step - also after a callback that removes itself.
C15_DispatchInOrder ==
  [][\A type \in {"ready", "completed"} :
       Dispatches(type) =>
         /\ state' = type
         /\ FiredHandlers = callbacks[type]
         /\ \A i \in 1..Len(fired') : fired'[i].state = type
    ]_vars

\* A `ready` has been dispatched to loadDocument's one-shot subscriber and
\* then to a handler the page registered after it.
C15_Witness ==
  /\ op.name = "message" /\ op.kind = "ready"
  /\ Len(fired) = 2
  /\ fired[1].h = LoadCb(1)
  /\ fired[2].h \in UserHandlers
  /\ loads[1].st = "resolved"
  /\ callbacks["ready"] = <<fired[2].h>>

\* C16 as stated: on a `destroyed` message each `destroyed` subscriber is
\* invoked while the iframe is still attached and the window listener still
\* registered; teardown comes afterwards.
C16_Original ==
  [][Dispatches("destroyed") =>
       /\ FiredHandlers = callbacks["destroyed"]
       /\ \A i \in 1..Len(fired') : fired'[i].attached /\ fired'[i].listening
       /\ ~attached' /\ ~listening' /\ callbacks' = EmptyCallbacks
    ]_vars

\* C16 amended: each `destroyed` subscriber is invoked after the listener is
\* removed, the iframe detached and state set to `destroyed`; only the
\* clearing of the registry comes after the subscribers.
C16_TeardownBeforeNotify ==
  [][Dispatches("destroyed") =>
       /\ FiredHandlers = callbacks["destroyed"]
       /\ \A i \in 1..Len(fired') :
            /\ ~fired'[i].attached
            /\ ~fired'[i].listening
            /\ fired'[i].state = "destroyed"
            /\ ~fired'[i].cleared
       /\ ~attached' /\ ~listening' /\ callbacks' = EmptyCallbacks
    ]_vars

\* A `destroyed` message has been dispatched to a subscriber of the page and
\* to the subscriber of a pending destroy call.
C16_Witness ==
  /\ op.name = "message" /\ op.kind = "destroyed"
  /\ acked
  /\ Len(fired) = 2
  /\ \E i, k \in 1..2 : fired[i].h \in UserHandlers /\ fired[k].h[1] = "destroy"
  /\ TornDown

\* C17: once state is `destroyed` it is `destroyed` in every later state,
\* whatever arrives and whatever is called; the state of a connection that
\* has just been constructed is `launching`.
C17_DestroyedTerminal ==
  [][/\ state = "destroyed" => state' = "destroyed"
     /\ (state = "none" /\ state' # "none") => state' = "launching"
    ]_vars

\* After `destroyed` was reached the page has called loadDocument and
\* destroy, and the timer of that loadDocument has fired.
C17_Witness ==
  /\ state = "destroyed"
  /\ \E j \in 1..Len(loads) : loads[j].state = "destroyed" /\ loads[j].st = "rejected"
  /\ \E j \in 1..Len(destroys) : ~destroys[j].live /\ destroys[j].by = "user"

\* State changes in this step of a constructed connection.
StateChanges == state # "none" /\ state' # state

\* The step dispatches a message of a type the listener recognizes, and the
\* new state is that type.
MessageSetsState ==
  /\ op'.name = "message"
  /\ op'.kind \in {"ready", "completed", "destroyed"}
  /\ state' = op'.kind

\* C18 as stated: state changes only in a step that dispatches a recognized
\* message; no call and no timer changes it.
C18_Original == [][StateChanges => MessageSetsState]_vars

\* C18 amended: state changes only in a step that dispatches a recognized
\* message, or in a step where a timer fires and the local teardown it runs
\* sets state to `destroyed`; no call of connect, loadDocument, destroy,
\* addEventListener or removeEventListener changes it.
C18_StateTransitions ==
  [][StateChanges =>
       \/ MessageSetsState
       \/ /\ op'.name = "timer"
          /\ state' = "destroyed"
          /\ teardowns' = teardowns + 1
    ]_vars

\* The timer of a destroy call has set state to `destroyed` without any
\* `destroyed` message, after a loadDocument that left state as it was.
C18_Witness ==
  /\ op.name = "timer" /\ op.kind = "destroy"
  /\ state = "destroyed"
  /\ ~acked
  /\ \E j \in 1..Len(loads) : loads[j].state = "ready"

\* C19: a run of _doDestroy on a connection already torn down raises no
\* error and leaves state `destroyed`, the iframe detached and the listener
\* removed: no destroy call that found no live iframe is rejected with the
\* error of removeChild.
C19_TeardownIdempotent ==
  \A j \in 1..Len(destroys) :
    ~destroys[j].live =>
      /\ destroys[j].err # NotFoundError
      /\ state = "destroyed" /\ ~attached /\ ~listening

\* C20: between steps the window listener is registered iff state is not
\* `destroyed`, and the iframe is attached iff state is not `destroyed`; the
\* listener is registered by the construction only and removed by the one
\* completed teardown only.
C20_ListenerLifetime ==
  [][/\ state' # "none" =>
          /\ listening' <=> state' # "destroyed"
          /\ attached' <=> state' # "destroyed"
     /\ (~listening /\ listening') => (state = "none" /\ teardowns' = 0)
     /\ (listening /\ ~listening') => (teardowns = 0 /\ teardowns' = 1)
    ]_vars

\* The listener was removed by the teardown of a destroy timeout, and a
\* later destroy call found no live iframe.
C20_Witness ==
  /\ state = "destroyed" /\ ~listening /\ ~attached
  /\ teardowns = 1
  /\ ~acked
  /\ \E j \in 1..Len(destroys) : destroys[j].live /\ destroys[j].err = DestroyTimeout
  /\ \E j \in 1..Len(destroys) : ~destroys[j].live

\* C21: with two instances alive on the window, a message posted by the
\* other instance's embedded application leaves this instance as it was:
\* state unchanged, no callback invoked, no pending promise settled, no
\* teardown.
C21_NoCrossConnectionInterference ==
  [][(/\ op'.name = "message" /\ op'.h = OtherIframe
      /\ listening /\ attached
      /\ other.listening /\ other.attached) =>
       /\ state' = state
       /\ fired' = <<>>
       /\ connectP' = connectP /\ loads' = loads /\ destroys' = destroys
       /\ attached' /\ listening' /\ teardowns' = teardowns
    ]_vars

\* C22: a pending loadDocument(fileId) resolves only in a step that
\* dispatches a `ready` message whose fileId is the requested one.
C22_ResolvesOnOwnReady ==
  [][\A j \in 1..Len(loads) :
       (loads[j].st = "pending" /\ loads'[j].st = "resolved") =>
         /\ Dispatches("ready")
         /\ op'.fileId = loads[j].fileId
    ]_vars

\* Handler h of a settled operation is out of the registry and its timer is
\* not pending.
Deregistered(h, kind) ==
  /\ h \notin Range(callbacks[kind])
  /\ h \notin Range(timers)

\* C23: once the promise of connect, of a loadDocument or of a destroy call
\* on a live iframe has settled, its one-shot subscriber is no longer
\* registered and its timer is no longer pending.
C23_SubscriberAndTimerPaired ==
  /\ connectP.st \in {"resolved", "rejected"} => Deregistered(ConnectCb, "ready")
  /\ \A j \in 1..Len(loads) :
       loads[j].st # "pending" => Deregistered(LoadCb(j), "ready")
  /\ \A j \in 1..Len(destroys) :
       (destroys[j].live /\ destroys[j].st # "pending")
         => Deregistered(OnDestroy(j), "destroyed")

\* C24: a loadDocument called while state is `destroyed` is rejected at
\* once, leaves the iframe src as it was, registers no `ready` subscriber
\* and starts no timer.
C24_LoadAfterDestroyedFailsFast ==
  [][\A j \in 1..Len(loads') :
       (j > Len(loads) /\ state = "destroyed") =>
         /\ loads'[j].st = "rejected"
         /\ src' = src
         /\ LoadCb(j) \notin Range(callbacks'["ready"])
         /\ LoadCb(j) \notin Range(timers')
    ]_vars

\* A settled promise keeps its outcome in this step.
SettledStays(p, q) == p.st \in {"resolved", "rejected"} => q = p

\* C25: the promise of connect, of every loadDocument and of every destroy
\* call eventually settles, provided the timers fire, and once settled it
\* never changes - also a loadDocument pending when the connection is torn
\* down, and overlapping loadDocument and destroy calls.
C25_EveryPromiseSettles ==
  /\ (connectP.st = "pending") ~> (connectP.st # "pending")
  /\ \A j \in 1..MaxCalls :
       (j <= Len(loads) /\ loads[j].st = "pending")
         ~> (j <= Len(loads) /\ loads[j].st # "pending")
  /\ \A j \in 1..MaxCalls :
       (j <= Len(destroys) /\ destroys[j].st = "pending")
         ~> (j <= Len(destroys) /\ destroys[j].st # "pending")
  /\ [][/\ SettledStays(connectP, connectP')
        /\ \A j \in 1..Len(loads) : SettledStays(loads[j], loads'[j])
        /\ \A j \in 1..Len(destroys) : SettledStays(destroys[j], destroys'[j])
       ]_vars

\* A loadDocument that overlapped a destroy call and was pending when the
\* `destroyed` message tore the connection down has been rejected by its
\* timer; the destroy call has resolved.
C25_Witness ==
  /\ acked
  /\ connectP.st = "resolved"
  /\ \E j \in 1..Len(loads) :
       /\ loads[j].state # "destroyed"
       /\ loads[j].st = "rejected" /\ loads[j].err = LoadTimeout
  /\ \E j \in 1..Len(destroys) :
       destroys[j].by = "user" /\ destroys[j].live /\ destroys[j].st = "resolved"
  /\ timers = <<>>

=============================================================================
